---- MODULE Spec2Model ----
(***************************************************************************)
(* A model of the Style classes of ttkbootstrap and of the asset store of   *)
(* StylerTTK.  The repository holds three revisions of the Style class:     *)
(*   core/style.py   ("core.style")  - per-instance theme_objects           *)
(*   style.py        ("style")       - class-level registries               *)
(*   style/style.py  ("style.style") - the singleton Style                  *)
(* An application imports one of them; `module` records which.  The Tk      *)
(* interpreter (its ttk themes, the theme in use, the option database) is   *)
(* shared by every Style object of the process.  The widget settings a      *)
(* StylerTTK of core/style.py assembles are modelled with the way ttk       *)
(* resolves an option of a widget from them.                                *)
(***************************************************************************)
EXTENDS Integers, FiniteSets, Sequences, TLC

\* ------------------------------------------------------------------ bounds
MaxStyles == 2      \* Style objects that are successfully constructed
MaxObjects == 3     \* objects the singleton class allocates (style/style.py)
MaxUuid == 3        \* uuid4() draws made by directly called style builders

\* ------------------------------------------------------------- vocabulary
None == "None"
Modules == {"core.style", "style", "style.style"}
BootstrapThemes == {"flatly", "superhero"}
TtkThemes == {"clam", "default"}
UnknownThemes == {"nosuch"}
ThemeArgs == BootstrapThemes \cup {"clam"} \cup UnknownThemes \cup {None}
StyleNames == {"TButton", "TLabel"}
ColorArgs == {None, "primary"}
Orients == {"horizontal", "vertical"}

\* A ThemeDefinition object; NoneTheme stands for Python's None in a slot
\* that holds a ThemeDefinition.
NoneTheme == [name |-> None, type |-> None]
ThemeDefinition(name) ==
    [name |-> name, type |-> IF name = "superhero" THEN "dark" ELSE "light"]
\* ThemeDefinition.load_themes(): the dict name -> ThemeDefinition
load_themes == [n \in BootstrapThemes |-> ThemeDefinition(n)]
\* dict.get(key) on a dict of ThemeDefinitions
Get(d, k) == IF k \in DOMAIN d THEN d[k] ELSE NoneTheme
EmptyDict == [k \in {} |-> {}]

\* ThemeColors: a colour is kept symbolically as (theme, colour name, value shift)
Color(theme, cname) == [theme |-> theme.name, color |-> cname, vd |-> 0]
update_hsv(color, vd) == [color EXCEPT !.vd = @ + vd]
normalize(color, fallback, theme) ==
    IF color = None THEN fallback ELSE Color(theme, color)

\* Keys of StylerTTK.theme_images: a fixed name (id 0) or a uuid4() draw
Key(id, name) == [id |-> id, name |-> name]
Image(shape, fill) == [shape |-> shape, fill |-> fill]

VARIABLES
    module,             \* which Style revision the application imported
    tkThemes,           \* ttk.Style.theme_names() of the Tk interpreter
    tkCurrent,          \* ttk.Style.theme_use(): the theme in use
    tkOptions,          \* theme whose colours were last put in the option database
    theme_images,       \* StylerTTK.theme_images (class attribute)
    uuid,               \* number of uuid4() draws so far
    styles,             \* the Style objects allocated, in order
    current_theme,      \* style.py: Style.current_theme
    themes,             \* style.py: Style.themes
    theme_objects,      \* style.py: Style.theme_objects (its keys)
    registered_styles,  \* style.py: Style.registered_styles
    instance,           \* style/style.py: Style.__instance (0 is None)
    garbage,            \* style/style.py: discarded objects awaiting __del__
    last,               \* the call just made: operation, receiver, argument, outcome
    style_log,          \* history: (theme, style) pairs given to register_style
    ttkstyle_log,       \* history: (object, theme, style) given to register_ttkstyle
    asset_log,          \* history: (operation, arguments) of the style builders called
    theme_log,          \* history: (object, name) given to register_theme by the application
    settings,           \* core/style.py: StylerTTK.settings, style name -> configure and map
    builds              \* history: (object, theme) -> number of times the object built the theme

vars == <<module, tkThemes, tkCurrent, tkOptions, theme_images, uuid, styles,
          current_theme, themes, theme_objects, registered_styles, instance,
          garbage, last, style_log, ttkstyle_log, asset_log, theme_log,
          settings, builds>>

tkVars == <<tkThemes, tkCurrent, tkOptions>>
imageVars == <<theme_images, uuid>>
classVars == <<current_theme, themes, theme_objects, registered_styles>>
singletonVars == <<instance, garbage>>
logVars == <<style_log, ttkstyle_log, asset_log, theme_log>>

\* The build history after a call on `self` that built the theme or did not
Record(log, self, themename, built) ==
    IF ~built THEN log
    ELSE IF <<self, themename>> \in DOMAIN log
    THEN [log EXCEPT ![<<self, themename>>] = @ + 1]
    ELSE (<<self, themename>> :> 1) @@ log

Call(op, self, arg, ret, raised) ==
    [op |-> op, self |-> self, arg |-> arg, ret |-> ret, raised |-> raised]

Init ==
    /\ module \in Modules
    /\ tkThemes = TtkThemes
    /\ tkCurrent = "default"
    /\ tkOptions = None
    /\ theme_images = EmptyDict
    /\ uuid = 0
    /\ styles = <<>>
    /\ current_theme = NoneTheme
    /\ themes = {}
    /\ theme_objects = {}
    /\ registered_styles = EmptyDict
    /\ instance = 0
    /\ garbage = {}
    /\ last = Call("import", 0, None, None, None)
    /\ style_log = {}
    /\ ttkstyle_log = {}
    /\ asset_log = {}
    /\ theme_log = {}
    /\ settings = EmptyDict
    /\ builds = EmptyDict

\* ------------------------------------------------ core/style.py: StylerTTK
\* StylerTTK.style_sizegrip_images(color)
style_sizegrip_images(color) == Image("sizegrip", color)

\* StylerTTK.style_sizegrip(theme, background, foreground, style): the entries
\* it puts in theme_images, given the uuid4() draw `id`
CoreSizegripEntries(theme, foreground, id) ==
    LET fg == IF theme.type = "light"
              THEN normalize(foreground, Color(theme, "border"), theme)
              ELSE normalize(foreground, Color(theme, "inputbg"), theme)
    IN  Key(id, "sizegrip") :> style_sizegrip_images(fg)

\* StylerTTK._create_slider_image(color)
create_slider_image(color) == Image("slider", color)

\* StylerTTK._style_scale(): the images it stores under fixed names
CoreScaleEntries(theme) ==
    LET inputbg == Color(theme, "inputbg")
        primary == Color(theme, "primary")
        disabled_fg == IF theme.type = "light" THEN update_hsv(inputbg, -20)
                       ELSE update_hsv(inputbg, -30)
        trough_color == IF theme.type = "dark" THEN inputbg
                        ELSE update_hsv(inputbg, -3)
    IN  (Key(0, "primary_disabled") :> create_slider_image(disabled_fg))
        @@ (Key(0, "primary_regular") :> create_slider_image(primary))
        @@ (Key(0, "primary_pressed") :> create_slider_image(update_hsv(primary, -20)))
        @@ (Key(0, "primary_hover") :> create_slider_image(update_hsv(primary, -10)))
        @@ (Key(0, "htrough") :> Image("htrough", trough_color))
        @@ (Key(0, "vtrough") :> Image("vtrough", trough_color))

\* StylerTTK._style_scale(): the image elements it creates and the images of
\* the store each of them is given, read right after the store was updated
CoreScaleElements(theme) ==
    LET images == CoreScaleEntries(theme)
    IN  [e \in {"Horizontal.Scale.track", "Vertical.Scale.track", "Scale.slider"} |->
           CASE e = "Horizontal.Scale.track" -> {images[Key(0, "htrough")]}
             [] e = "Vertical.Scale.track" -> {images[Key(0, "vtrough")]}
             [] e = "Scale.slider" -> {images[Key(0, "primary_regular")],
                                       images[Key(0, "primary_disabled")],
                                       images[Key(0, "primary_pressed")],
                                       images[Key(0, "primary_hover")]}]

\* dict.update(entries): the entries replace what the dict held under their keys
Update(d, entries) == entries @@ d

\* StylerTTK(style, definition) of core/style.py: create_theme() fills the
\* shared image store and calls theme_create(name, "clam", settings).  Of the
\* image-producing steps of update_ttk_theme_settings the model keeps the two
\* kinds of key: _style_scale (fixed names, primary colour) and the default
\* style_sizegrip (a fresh uuid4() key).
CoreStylerTTK(images, u, definition) ==
    [images |-> Update(Update(images, CoreScaleEntries(definition)),
                       CoreSizegripEntries(definition, None, u + 1)),
     uuid |-> u + 1]

\* ---------------------------------------------------- core/style.py: Style
\* The fields Style.__init__ sets before it calls theme_use
CoreNewStyle(names) ==
    [theme |-> NoneTheme,
     theme_definitions |-> load_themes,
     themes |-> names \cup DOMAIN load_themes,
     theme_objects |-> {}]

\* A faulty theme_use: super().theme_use(themename) is reached only on the path
\* that builds the theme, so a theme built earlier is never selected again.
CoreThemeUseSelectsOnlyWhenBuilt(st, names, cur, opts, images, u, themename) ==
    LET theme == Get(st.theme_definitions, themename)
        st1 == [st EXCEPT !.theme = theme]
        same == [style |-> st1, tkThemes |-> names, tkCurrent |-> cur,
                 tkOptions |-> opts, images |-> images, uuid |-> u,
                 ret |-> None, raised |-> None, built |-> FALSE]
    IN  IF themename = None THEN [same EXCEPT !.ret = cur]
        ELSE IF themename \notin st.themes THEN same
        ELSE IF themename \notin names
        THEN LET built == CoreStylerTTK(images, u, theme)
             IN  [same EXCEPT !.style.theme_objects = @ \cup {themename},
                              !.tkThemes = names \cup {themename},
                              !.tkCurrent = themename,
                              !.tkOptions = themename,
                              !.images = built.images,
                              !.uuid = built.uuid,
                              !.built = TRUE]
        ELSE IF themename \in st.theme_objects
        THEN [same EXCEPT !.tkOptions = themename]
        ELSE [same EXCEPT !.raised = "KeyError"]

\* Style.theme_use(themename) on the object st: the object, the Tk state and
\* the image store after the call, what it returns and what it raises
\* (KeyError from self.theme_objects[themename] when this object holds no
\* StylerTTK for the theme).
CoreThemeUse(st, names, cur, opts, images, u, themename) ==
    LET theme == Get(st.theme_definitions, themename)
        st1 == [st EXCEPT !.theme = theme]
        same == [style |-> st1, tkThemes |-> names, tkCurrent |-> cur,
                 tkOptions |-> opts, images |-> images, uuid |-> u,
                 ret |-> None, raised |-> None, built |-> FALSE]
    IN  IF themename = None THEN [same EXCEPT !.ret = cur]
        ELSE IF themename \notin st.themes THEN same
        ELSE LET build == themename \notin names
                 built == IF build THEN CoreStylerTTK(images, u, theme)
                          ELSE [images |-> images, uuid |-> u]
                 objs == IF build THEN st.theme_objects \cup {themename}
                         ELSE st.theme_objects
                 after == [same EXCEPT !.style.theme_objects = objs,
                                       !.tkThemes = names \cup {themename},
                                       !.tkCurrent = themename,
                                       !.images = built.images,
                                       !.uuid = built.uuid,
                                       !.built = build]
             IN  IF themename \in objs
                 THEN [after EXCEPT !.tkOptions = themename]
                 ELSE [after EXCEPT !.raised = "KeyError"]

\* Style(themename): __init__ sets the fields and calls theme_use; when that
\* raises, the caller gets no object.
CoreInit(themename) ==
    /\ module = "core.style"
    /\ Len(styles) < MaxStyles
    /\ LET r == CoreThemeUse(CoreNewStyle(tkThemes), tkThemes, tkCurrent,
                             tkOptions, theme_images, uuid, themename)
       IN  /\ styles' = IF r.raised = None THEN Append(styles, r.style) ELSE styles
           /\ tkThemes' = r.tkThemes
           /\ tkCurrent' = r.tkCurrent
           /\ tkOptions' = r.tkOptions
           /\ theme_images' = r.images
           /\ uuid' = r.uuid
           /\ builds' = Record(builds, Len(styles) + 1, themename, r.built)
           /\ last' = Call("__init__",
                           IF r.raised = None THEN Len(styles) + 1 ELSE 0,
                           themename, None, r.raised)
    /\ UNCHANGED <<module, settings, classVars, singletonVars, logVars>>

\* style.theme_use(themename) on the i-th Style object
CoreThemeUseCall(i, themename) ==
    /\ module = "core.style"
    /\ i \in 1..Len(styles)
    /\ LET r == CoreThemeUse(styles[i], tkThemes, tkCurrent, tkOptions,
                             theme_images, uuid, themename)
       IN  /\ styles' = [styles EXCEPT ![i] = r.style]
           /\ tkThemes' = r.tkThemes
           /\ tkCurrent' = r.tkCurrent
           /\ tkOptions' = r.tkOptions
           /\ theme_images' = r.images
           /\ uuid' = r.uuid
           /\ builds' = Record(builds, i, themename, r.built)
           /\ last' = Call("theme_use", i, themename, r.ret, r.raised)
    /\ UNCHANGED <<module, settings, classVars, singletonVars, logVars>>

\* --------------------------------------------------------- style.py: Style
\* A faulty theme_use: a StylerTTK is made for a defined theme on every call,
\* whether or not the interpreter already has the theme.
RootThemeUseAlwaysBuilds(names, cur, opts, known, objs, themename) ==
    LET theme == Get(load_themes, themename)
        same == [theme |-> theme, current_theme |-> theme, theme_objects |-> objs,
                 tkThemes |-> names, tkCurrent |-> cur, tkOptions |-> opts,
                 ret |-> None, built |-> FALSE]
    IN  IF themename = None THEN [same EXCEPT !.ret = cur]
        ELSE IF themename \notin known THEN same
        ELSE [same EXCEPT
                !.theme_objects = IF themename \in DOMAIN load_themes
                                  THEN objs \cup {themename} ELSE objs,
                !.tkThemes = names \cup {themename},
                !.tkCurrent = themename,
                !.tkOptions = IF themename \in DOMAIN load_themes
                              THEN themename ELSE opts,
                !.built = themename \in DOMAIN load_themes]

\* Style.theme_use(themename) of style.py on an object whose theme is `theme`:
\* self.theme, the class attributes and the Tk state after the call.
RootThemeUse(names, cur, opts, known, objs, themename) ==
    LET theme == Get(load_themes, themename)
        same == [theme |-> theme, current_theme |-> theme, theme_objects |-> objs,
                 tkThemes |-> names, tkCurrent |-> cur, tkOptions |-> opts,
                 ret |-> None, built |-> FALSE]
    IN  IF themename = None THEN [same EXCEPT !.ret = cur]
        ELSE IF themename \notin known THEN same
        ELSE [same EXCEPT
                !.theme_objects = IF themename \notin names
                                  THEN objs \cup {themename} ELSE objs,
                !.tkThemes = names \cup {themename},
                !.tkCurrent = themename,
                !.tkOptions = IF themename \in DOMAIN load_themes
                              THEN themename ELSE opts,
                !.built = themename \notin names]

\* Style(themename) of style.py: Style.themes is reset to the interpreter's
\* theme names, register_themes() adds the defined ones, theme_use follows.
RootInit(themename) ==
    /\ module = "style"
    /\ Len(styles) < MaxStyles
    /\ LET known == tkThemes \cup DOMAIN load_themes
           r == RootThemeUse(tkThemes, tkCurrent, tkOptions, known,
                             theme_objects, themename)
       IN  /\ themes' = known
           /\ styles' = Append(styles, [theme |-> r.theme])
           /\ current_theme' = r.current_theme
           /\ theme_objects' = r.theme_objects
           /\ tkThemes' = r.tkThemes
           /\ tkCurrent' = r.tkCurrent
           /\ tkOptions' = r.tkOptions
           /\ builds' = Record(builds, Len(styles) + 1, themename, r.built)
           /\ last' = Call("__init__", Len(styles) + 1, themename, None, None)
    /\ UNCHANGED <<module, settings, imageVars, registered_styles, singletonVars, logVars>>

RootThemeUseCall(i, themename) ==
    /\ module = "style"
    /\ i \in 1..Len(styles)
    /\ LET r == RootThemeUse(tkThemes, tkCurrent, tkOptions, themes,
                             theme_objects, themename)
       IN  /\ styles' = [styles EXCEPT ![i] = [theme |-> r.theme]]
           /\ current_theme' = r.current_theme
           /\ theme_objects' = r.theme_objects
           /\ tkThemes' = r.tkThemes
           /\ tkCurrent' = r.tkCurrent
           /\ tkOptions' = r.tkOptions
           /\ builds' = Record(builds, i, themename, r.built)
           /\ last' = Call("theme_use", i, themename, r.ret, None)
    /\ UNCHANGED <<module, settings, imageVars, themes, registered_styles, singletonVars,
                   logVars>>

\* A faulty register_style: the style is added only when the theme already has
\* a set, so the first style registered for a theme is dropped.
register_style_dropping_first(reg, theme, style) ==
    IF theme \notin DOMAIN reg THEN (theme :> {}) @@ reg
    ELSE [reg EXCEPT ![theme] = @ \cup {style}]

\* Style.register_style(theme, style): the registry after the call
register_style(reg, theme, style) ==
    LET reg1 == IF theme \notin DOMAIN reg THEN (theme :> {}) @@ reg ELSE reg
    IN  [reg1 EXCEPT ![theme] = @ \cup {style}]

\* Style.style_is_registered(theme, style): None, "True" or "False"
style_is_registered(reg, theme, style) ==
    LET theme_styles == IF theme \in DOMAIN reg THEN reg[theme] ELSE {}
    IN  IF theme_styles = {} THEN None
        ELSE IF style \in theme_styles THEN "True" ELSE "False"

\* Python truth of a returned None / True / False
Truthy(v) == v = "True"

RegisterStyle(theme, style) ==
    /\ module = "style"
    /\ registered_styles' = register_style(registered_styles, theme, style)
    /\ style_log' = style_log \cup {<<theme, style>>}
    /\ last' = Call("register_style", 0, None, None, None)
    /\ UNCHANGED <<module, builds, settings, tkVars, imageVars, styles, current_theme, themes,
                   theme_objects, singletonVars, ttkstyle_log, asset_log,
                   theme_log>>

\* --------------------------------------------------- style/style.py: Style
DEFAULT_THEME == "flatly"

\* StyleBuilderTTK(style, definition): creates the ttk theme of the definition
\* in the interpreter and makes it the theme in use.
StyleBuilderTTK(names, definition) ==
    [tkThemes |-> names \cup {definition.name}, tkCurrent |-> definition.name]

\* The fields Style.__init__ sets before theme_use; _load_themes() registers
\* every definition with register_theme.
SingletonNewStyle(names) ==
    [initialised |-> TRUE,
     theme |-> NoneTheme,
     theme_names |-> names \cup DOMAIN load_themes,
     theme_objects |-> {},
     theme_definitions |-> load_themes,
     theme_styles |-> EmptyDict]

\* Style.theme_use(themename) of style/style.py
SingletonThemeUse(st, names, cur, opts, themename) ==
    LET theme == Get(st.theme_definitions, themename)
        st1 == [st EXCEPT !.theme = theme]
        same == [style |-> st1, tkThemes |-> names, tkCurrent |-> cur,
                 tkOptions |-> opts, ret |-> None, built |-> FALSE]
    IN  IF themename = None THEN [same EXCEPT !.ret = cur]
        ELSE IF themename \notin st.theme_names THEN same
        ELSE IF themename \in names THEN [same EXCEPT !.tkCurrent = themename]
        ELSE LET built == StyleBuilderTTK(names, theme)
             IN  [same EXCEPT !.style.theme_objects = @ \cup {themename},
                              !.tkThemes = built.tkThemes,
                              !.tkCurrent = built.tkCurrent,
                              !.tkOptions = themename,
                              !.built = TRUE]

\* Style(theme) while Style.__instance is None: the new object becomes the
\* singleton, is initialised and selects its theme.
SingletonCreate(themename) ==
    LET r == SingletonThemeUse(SingletonNewStyle(tkThemes), tkThemes, tkCurrent,
                               tkOptions, themename)
    IN  /\ styles' = Append(styles, r.style)
        /\ instance' = Len(styles) + 1
        /\ tkThemes' = r.tkThemes
        /\ tkCurrent' = r.tkCurrent
        /\ tkOptions' = r.tkOptions
        /\ builds' = Record(builds, Len(styles) + 1, themename, r.built)

\* Style(theme): with a singleton in place __init__ returns it, which Python
\* rejects with TypeError; the object just allocated is left uninitialised and
\* unreferenced.
SingletonInit(themename) ==
    /\ module = "style.style"
    /\ Len(styles) < MaxObjects
    /\ IF instance # 0
       THEN /\ styles' = Append(styles, [initialised |-> FALSE])
            /\ garbage' = garbage \cup {Len(styles) + 1}
            /\ last' = Call("__init__", 0, themename, None, "TypeError")
            /\ UNCHANGED <<instance, tkVars, builds>>
       ELSE /\ SingletonCreate(themename)
            /\ last' = Call("__init__", Len(styles) + 1, themename, None, None)
            /\ UNCHANGED garbage
    /\ UNCHANGED <<module, settings, imageVars, classVars, logVars>>

\* Style.__del__ of a discarded object
SingletonDel(o) ==
    /\ module = "style.style"
    /\ o \in garbage
    /\ instance' = 0
    /\ garbage' = garbage \ {o}
    /\ last' = Call("__del__", 0, None, None, None)
    /\ UNCHANGED <<module, builds, settings, tkVars, imageVars, styles, classVars, logVars>>

\* What Style.get_instance() returns (0 is None) when Style.__instance is i
get_instance_result(i) == IF i = 0 THEN 0 ELSE i

\* Style.get_instance()
GetInstance ==
    /\ module = "style.style"
    /\ IF instance = 0
       THEN /\ Len(styles) < MaxObjects
            /\ SingletonCreate(DEFAULT_THEME)
       ELSE UNCHANGED <<styles, instance, tkVars, builds>>
    /\ last' = Call("get_instance", 0, None, get_instance_result(instance), None)
    /\ UNCHANGED <<module, settings, imageVars, classVars, garbage, logVars>>

\* Style.get_builder(): what it raises, given what get_instance() returned
get_builder_raises(all, i) ==
    IF i = 0 THEN "AttributeError"
    ELSE IF all[i].theme = NoneTheme THEN "AttributeError"
    ELSE IF all[i].theme.name \notin all[i].theme_objects THEN "KeyError"
    ELSE None

GetBuilder ==
    /\ module = "style.style"
    /\ IF instance = 0
       THEN /\ Len(styles) < MaxObjects
            /\ SingletonCreate(DEFAULT_THEME)
       ELSE UNCHANGED <<styles, instance, tkVars, builds>>
    /\ last' = Call("get_builder", 0, None, get_instance_result(instance),
                    get_builder_raises(styles, get_instance_result(instance)))
    /\ UNCHANGED <<module, settings, imageVars, classVars, garbage, logVars>>

Initialised == {o \in 1..Len(styles) : styles[o].initialised}

SingletonThemeUseCall(o, themename) ==
    /\ module = "style.style"
    /\ o \in Initialised
    /\ LET r == SingletonThemeUse(styles[o], tkThemes, tkCurrent, tkOptions,
                                  themename)
       IN  /\ styles' = [styles EXCEPT ![o] = r.style]
           /\ tkThemes' = r.tkThemes
           /\ tkCurrent' = r.tkCurrent
           /\ tkOptions' = r.tkOptions
           /\ builds' = Record(builds, o, themename, r.built)
           /\ last' = Call("theme_use", o, themename, r.ret, None)
    /\ UNCHANGED <<module, settings, imageVars, classVars, singletonVars, logVars>>

\* Style.register_ttkstyle(ttkstyle): the object's _theme_styles after the call
register_ttkstyle(st, ttkstyle) ==
    IF st.theme = NoneTheme THEN st.theme_styles
    ELSE IF st.theme.name \notin DOMAIN st.theme_styles
    THEN (st.theme.name :> {}) @@ st.theme_styles
    ELSE [st.theme_styles EXCEPT ![st.theme.name] = @ \cup {ttkstyle}]

RegisterTtkstyle(o, ttkstyle) ==
    /\ module = "style.style"
    /\ o \in Initialised
    /\ styles' = [styles EXCEPT ![o].theme_styles = register_ttkstyle(styles[o], ttkstyle)]
    /\ ttkstyle_log' = IF styles[o].theme = NoneTheme THEN ttkstyle_log
                       ELSE ttkstyle_log \cup {<<o, styles[o].theme.name, ttkstyle>>}
    /\ last' = Call("register_ttkstyle", 0, None, None, None)
    /\ UNCHANGED <<module, builds, settings, tkVars, imageVars, classVars, singletonVars, style_log,
                   asset_log, theme_log>>

\* Style.exists(ttkstyle) on an object whose theme is set
exists(st, ttkstyle) ==
    LET ttkstyles == IF st.theme.name \in DOMAIN st.theme_styles
                     THEN st.theme_styles[st.theme.name] ELSE {}
    IN  IF ttkstyles = {} THEN FALSE ELSE ttkstyle \in ttkstyles

Next ==
    \/ \E n \in ThemeArgs \ {None} : CoreInit(n)
    \/ \E i \in 1..MaxStyles, n \in ThemeArgs : CoreThemeUseCall(i, n)
    \/ \E n \in ThemeArgs \ {None} : RootInit(n)
    \/ \E i \in 1..MaxStyles, n \in ThemeArgs : RootThemeUseCall(i, n)
    \/ \E t \in BootstrapThemes, s \in StyleNames : RegisterStyle(t, s)
    \/ \E n \in ThemeArgs \ {None} : SingletonInit(n)
    \/ \E o \in 1..MaxObjects : SingletonDel(o)
    \/ GetInstance
    \/ GetBuilder
    \/ \E o \in 1..MaxObjects, n \in ThemeArgs : SingletonThemeUseCall(o, n)

Spec == Init /\ [][Next]_vars

\* ------------------------------------------- style/style.py: the registry
\* register_ttkstyle is exercised on the Style the application made with
\* Style(): Init is the state right after that construction.
InitRegistry ==
    LET r == SingletonThemeUse(SingletonNewStyle(TtkThemes), TtkThemes, "default",
                               None, DEFAULT_THEME)
    IN  /\ module = "style.style"
        /\ tkThemes = r.tkThemes
        /\ tkCurrent = r.tkCurrent
        /\ tkOptions = r.tkOptions
        /\ theme_images = EmptyDict
        /\ uuid = 0
        /\ styles = <<r.style>>
        /\ current_theme = NoneTheme
        /\ themes = {}
        /\ theme_objects = {}
        /\ registered_styles = EmptyDict
        /\ instance = 1
        /\ garbage = {}
        /\ last = Call("__init__", 1, DEFAULT_THEME, None, None)
        /\ style_log = {}
        /\ ttkstyle_log = {}
        /\ asset_log = {}
        /\ theme_log = {}
        /\ settings = EmptyDict
        /\ builds = Record(EmptyDict, 1, DEFAULT_THEME, r.built)

NextRegistry ==
    \/ \E o \in 1..MaxObjects, n \in ThemeArgs : SingletonThemeUseCall(o, n)
    \/ \E o \in 1..MaxObjects, s \in StyleNames : RegisterTtkstyle(o, s)

SpecRegistry == InitRegistry /\ [][NextRegistry]_vars

\* ------------------------------------- style/style.py: registering themes
\* Definitions an application registers itself: one under a new name, one
\* under the name of a built-in ttk theme.
UserDefinitions ==
    {[name |-> "minty", type |-> "light"], [name |-> "clam", type |-> "dark"]}
UserThemes == {d.name : d \in UserDefinitions}

\* A faulty register_theme: the name is added to _theme_names and the
\* definition is not stored.
register_theme_name_only(st, definition) ==
    [st EXCEPT !.theme_names = @ \cup {definition.name}]

\* Style.register_theme(definition): the object after the call
register_theme(st, definition) ==
    [st EXCEPT !.theme_names = @ \cup {definition.name},
               !.theme_definitions = (definition.name :> definition) @@ @]

\* Style.theme_names(): the keys of _theme_definitions
theme_names(st) == DOMAIN st.theme_definitions

RegisterTheme(o, definition) ==
    /\ module = "style.style"
    /\ o \in Initialised
    /\ styles' = [styles EXCEPT ![o] = register_theme(styles[o], definition)]
    /\ theme_log' = theme_log \cup {<<o, definition.name>>}
    /\ last' = Call("register_theme", o, definition.name, None, None)
    /\ UNCHANGED <<module, builds, settings, tkVars, imageVars, classVars, singletonVars, style_log,
                   ttkstyle_log, asset_log>>

NextThemes ==
    \/ \E o \in 1..MaxObjects, n \in ThemeArgs \cup UserThemes :
           SingletonThemeUseCall(o, n)
    \/ \E o \in 1..MaxObjects, d \in UserDefinitions : RegisterTheme(o, d)

SpecThemes == InitRegistry /\ [][NextThemes]_vars

\* ------------------------------------------------- StylerTTK style builders
\* style.py, StylerTTK.style_separator(theme, settings, orient, sashcolor,
\* sashthickness, style): the entries it puts in theme_images
SeparatorEntries(theme, sashcolor, sashthickness, id) ==
    LET fallback == IF theme.type = "light" THEN Color(theme, "border")
                    ELSE Color(theme, "selectbg")
        color == normalize(sashcolor, fallback, theme)
    IN  (Key(id, ".h.separator") :> Image(<<40, sashthickness>>, color))
        @@ (Key(id, ".v.separator") :> Image(<<sashthickness, 40>>, color))

\* style.py, StylerTTK.style_scale_images(slidercolor, troughcolor, disabled,
\* orient, element, theme)
style_scale_images(slidercolor, troughcolor, disabled, orient, id, element, theme) ==
    LET outline == update_hsv(troughcolor, -10)
        pressed == update_hsv(slidercolor, IF theme.type = "light" THEN -20 ELSE 35)
        hover == update_hsv(slidercolor, IF theme.type = "light" THEN -10 ELSE 25)
    IN  (Key(id, element \o ".normal") :> Image("slider", slidercolor))
        @@ (Key(id, element \o ".pressed") :> Image("slider", pressed))
        @@ (Key(id, element \o ".disabled") :> Image("slider", disabled))
        @@ (Key(id, element \o ".hover") :> Image("slider", hover))
        @@ (Key(id, element \o ".trough") :>
                Image(IF orient = "horizontal" THEN <<40, 8>> ELSE <<8, 40>>,
                      <<troughcolor, outline>>))

\* style.py, StylerTTK.style_scale(theme, settings, troughcolor, slidercolor,
\* orient, style): the entries it puts in theme_images
ScaleEntries(theme, troughcolor, slidercolor, orient, id) ==
    LET slider == normalize(slidercolor, Color(theme, "primary"), theme)
        trough == normalize(troughcolor, Color(theme, "inputbg"), theme)
        disabled == update_hsv(Color(theme, "inputbg"),
                               IF theme.type = "light" THEN -20 ELSE -30)
        element == IF orient = "horizontal" THEN "Horizontal.Scale"
                   ELSE "Vertical.Scale"
    IN  style_scale_images(slider, trough, disabled, orient, id, element, theme)

\* A style builder called directly (as the widgets do): it draws a uuid and
\* stores its images in the shared StylerTTK.theme_images.
StyleBuilderCall(op, args, entries) ==
    /\ uuid < MaxUuid
    /\ uuid' = uuid + 1
    /\ theme_images' = Update(theme_images, entries)
    /\ asset_log' = asset_log \cup {<<op, args>>}
    /\ last' = Call(op, 0, args, DOMAIN entries, None)
    /\ UNCHANGED <<module, builds, settings, tkVars, styles, classVars, singletonVars, style_log,
                   ttkstyle_log, theme_log>>

StyleSeparator(theme, orient, sashcolor) ==
    /\ module = "style"
    /\ StyleBuilderCall("style_separator", <<theme.name, orient, sashcolor>>,
                        SeparatorEntries(theme, sashcolor, 1, uuid + 1))

StyleScale(theme, slidercolor, orient) ==
    /\ module = "style"
    /\ StyleBuilderCall("style_scale", <<theme.name, orient, slidercolor>>,
                        ScaleEntries(theme, None, slidercolor, orient, uuid + 1))

StyleSizegrip(theme, foreground) ==
    /\ module = "core.style"
    /\ StyleBuilderCall("style_sizegrip", <<theme.name, foreground>>,
                        CoreSizegripEntries(theme, foreground, uuid + 1))

Definitions == {load_themes[n] : n \in DOMAIN load_themes}

InitAssets == Init /\ module \in {"core.style", "style"}

NextAssets ==
    \/ \E t \in Definitions, o \in Orients, c \in ColorArgs : StyleSeparator(t, o, c)
    \/ \E t \in Definitions, o \in Orients, c \in ColorArgs : StyleScale(t, c, o)
    \/ \E t \in Definitions, c \in ColorArgs : StyleSizegrip(t, c)

SpecAssets == InitAssets /\ [][NextAssets]_vars

\* ------------------------------------------ core/style.py: widget settings
\* A state specification of a map entry: "pressed !disabled" names the states
\* that must be on and those that must be off.
StateSpec(on, off) == [on |-> on, off |-> off]

OutlineStyles == {"Outline.TButton", "primary.Outline.TButton"}
OutlineBackgrounds == {None, "light"}
OutlineForegrounds == {None, "secondary"}

\* A faulty style_outline_buttons: background, bordercolor, darkcolor and
\* lightcolor are mapped for pressed only, the hover entries are missing.
style_outline_buttons_no_hover(theme, background, foreground, style) ==
    LET bg == normalize(background, Color(theme, "bg"), theme)
        fg == normalize(foreground, Color(theme, "primary"), theme)
        disabled_fg == IF theme.type = "light"
                       THEN update_hsv(Color(theme, "inputbg"), -20)
                       ELSE update_hsv(Color(theme, "inputbg"), -30)
        pressed_vd == -10
        inverted == << <<StateSpec({"pressed"}, {"disabled"}), update_hsv(fg, pressed_vd)>> >>
    IN  style :>
          [configure |->
               [foreground |-> fg, background |-> bg, bordercolor |-> fg,
                darkcolor |-> bg, lightcolor |-> bg],
           map |->
               [foreground |-> << <<StateSpec({"disabled"}, {}), disabled_fg>>,
                                  <<StateSpec({"pressed"}, {}), bg>>,
                                  <<StateSpec({"hover"}, {}), bg>> >>,
                background |-> inverted,
                bordercolor |-> inverted,
                darkcolor |-> inverted,
                lightcolor |-> inverted]]

\* StylerTTK.style_outline_buttons(theme, anchor, background, font, foreground,
\* style): the settings it returns (the colour options)
style_outline_buttons(theme, background, foreground, style) ==
    LET bg == normalize(background, Color(theme, "bg"), theme)
        fg == normalize(foreground, Color(theme, "primary"), theme)
        disabled_fg == IF theme.type = "light"
                       THEN update_hsv(Color(theme, "inputbg"), -20)
                       ELSE update_hsv(Color(theme, "inputbg"), -30)
        pressed_vd == -10
        inverted == << <<StateSpec({"pressed"}, {"disabled"}), update_hsv(fg, pressed_vd)>>,
                       <<StateSpec({"hover"}, {"disabled"}), fg>> >>
    IN  style :>
          [configure |->
               [foreground |-> fg, background |-> bg, bordercolor |-> fg,
                darkcolor |-> bg, lightcolor |-> bg],
           map |->
               [foreground |-> << <<StateSpec({"disabled"}, {}), disabled_fg>>,
                                  <<StateSpec({"pressed"}, {}), bg>>,
                                  <<StateSpec({"hover"}, {}), bg>> >>,
                background |-> inverted,
                bordercolor |-> inverted,
                darkcolor |-> inverted,
                lightcolor |-> inverted]]

\* self.settings.update(self.style_outline_buttons(...))
StyleOutlineButtons(theme, background, foreground, style) ==
    /\ module = "core.style"
    /\ settings' = Update(settings,
                          style_outline_buttons(theme, background, foreground, style))
    /\ last' = Call("style_outline_buttons", 0,
                    <<theme.name, background, foreground, style>>, None, None)
    /\ UNCHANGED <<module, builds, tkVars, imageVars, styles, classVars, singletonVars,
                   logVars>>

\* The colour names `for color in self.theme.colors` runs over
ThemeColorNames == {"primary", "secondary"}

\* The disabled foreground _style_spinbox and _style_combobox compute
DisabledFg(theme) ==
    IF theme.type = "light" THEN update_hsv(Color(theme, "inputbg"), -20)
    ELSE update_hsv(Color(theme, "inputbg"), -30)

\* StylerTTK._style_spinbox(): what it puts in self.settings for TSpinbox and
\* for each colour variant (the colour options)
style_spinbox(theme) ==
    LET disabled_fg == DisabledFg(theme)
        primary == Color(theme, "primary")
        inputfg == Color(theme, "inputfg")
        inputbg == Color(theme, "inputbg")
        variant(color) ==
            [configure |-> EmptyDict,
             map |->
               [foreground |-> << <<StateSpec({"disabled"}, {}), disabled_fg>> >>,
                bordercolor |-> << <<StateSpec({"focus"}, {"disabled"}), Color(theme, color)>>,
                                   <<StateSpec({"hover"}, {"disabled"}), Color(theme, color)>> >>,
                arrowcolor |-> << <<StateSpec({"disabled"}, {"disabled"}), disabled_fg>>,
                                  <<StateSpec({"pressed"}, {"disabled"}), Color(theme, color)>>,
                                  <<StateSpec({"hover"}, {"disabled"}), inputfg>> >>,
                lightcolor |-> << <<StateSpec({"focus"}, {"disabled"}), Color(theme, color)>> >>,
                darkcolor |-> << <<StateSpec({"focus"}, {"disabled"}), Color(theme, color)>> >>]]
    IN  [st \in {"TSpinbox"} \cup {c \o ".TSpinbox" : c \in ThemeColorNames} |->
           IF st = "TSpinbox"
           THEN [configure |->
                   [bordercolor |-> Color(theme, "border"), darkcolor |-> inputbg,
                    lightcolor |-> inputbg, fieldbackground |-> inputbg,
                    foreground |-> inputfg, background |-> inputbg,
                    arrowcolor |-> inputfg],
                 map |->
                   [foreground |-> << <<StateSpec({"disabled"}, {}), disabled_fg>> >>,
                    bordercolor |-> << <<StateSpec({"focus"}, {"disabled"}), primary>>,
                                       <<StateSpec({"hover"}, {"disabled"}), Color(theme, "bg")>> >>,
                    lightcolor |-> << <<StateSpec({"focus"}, {"disabled"}), primary>>,
                                      <<StateSpec({"hover"}, {"disabled"}), primary>> >>,
                    darkcolor |-> << <<StateSpec({"focus"}, {"disabled"}), primary>>,
                                     <<StateSpec({"hover"}, {"disabled"}), primary>> >>,
                    arrowcolor |-> << <<StateSpec({"disabled"}, {"disabled"}), disabled_fg>>,
                                      <<StateSpec({"pressed"}, {"disabled"}), primary>>,
                                      <<StateSpec({"focus"}, {"disabled"}), inputfg>>,
                                      <<StateSpec({"hover"}, {"disabled"}), inputfg>> >>]]
           ELSE variant(CHOOSE c \in ThemeColorNames : st = c \o ".TSpinbox")]

\* StylerTTK._style_combobox(): what it puts in self.settings for TCombobox
\* and for each colour variant (the colour options; the keys written with a
\* trailing blank at lines 463-468 name no option and are left out)
style_combobox(theme) ==
    LET disabled_fg == DisabledFg(theme)
        primary == Color(theme, "primary")
        inputfg == Color(theme, "inputfg")
        inputbg == Color(theme, "inputbg")
        arrowcolor == << <<StateSpec({"disabled"}, {}), disabled_fg>>,
                         <<StateSpec({"pressed"}, {"disabled"}), inputbg>>,
                         <<StateSpec({"focus"}, {"disabled"}), inputfg>>,
                         <<StateSpec({"hover"}, {"disabled"}), primary>> >>
        variant(color) ==
            [configure |-> EmptyDict,
             map |->
               [foreground |-> << <<StateSpec({"disabled"}, {}), disabled_fg>> >>,
                bordercolor |-> << <<StateSpec({"focus"}, {"disabled"}), Color(theme, color)>>,
                                   <<StateSpec({"hover"}, {"disabled"}), Color(theme, color)>> >>,
                lightcolor |-> << <<StateSpec({"focus"}, {"disabled"}), Color(theme, color)>>,
                                  <<StateSpec({"pressed"}, {"disabled"}), Color(theme, color)>> >>,
                darkcolor |-> << <<StateSpec({"focus"}, {"disabled"}), Color(theme, color)>>,
                                 <<StateSpec({"pressed"}, {"disabled"}), Color(theme, color)>> >>,
                arrowcolor |-> arrowcolor]]
    IN  [st \in {"TCombobox"} \cup {c \o ".TCombobox" : c \in ThemeColorNames} |->
           IF st = "TCombobox"
           THEN [configure |->
                   [bordercolor |-> Color(theme, "border"), darkcolor |-> inputbg,
                    lightcolor |-> inputbg, arrowcolor |-> inputfg,
                    foreground |-> inputfg],
                 map |->
                   [foreground |-> << <<StateSpec({"disabled"}, {}), disabled_fg>> >>,
                    bordercolor |-> << <<StateSpec({"focus"}, {"disabled"}), primary>>,
                                       <<StateSpec({"hover"}, {"disabled"}), Color(theme, "bg")>> >>,
                    lightcolor |-> << <<StateSpec({"focus"}, {"disabled"}), primary>>,
                                      <<StateSpec({"hover"}, {"disabled"}), primary>> >>,
                    darkcolor |-> << <<StateSpec({"focus"}, {"disabled"}), primary>>,
                                     <<StateSpec({"hover"}, {"disabled"}), primary>> >>,
                    arrowcolor |-> arrowcolor]]
           ELSE variant(CHOOSE c \in ThemeColorNames : st = c \o ".TCombobox")]

\* self._style_spinbox() and self._style_combobox() of a builder whose theme
\* is `theme`
StyleSpinbox(theme) ==
    /\ module = "core.style"
    /\ settings' = Update(settings, style_spinbox(theme))
    /\ last' = Call("_style_spinbox", 0, theme.name, None, None)
    /\ UNCHANGED <<module, builds, tkVars, imageVars, styles, classVars, singletonVars,
                   logVars>>

StyleCombobox(theme) ==
    /\ module = "core.style"
    /\ settings' = Update(settings, style_combobox(theme))
    /\ last' = Call("_style_combobox", 0, theme.name, None, None)
    /\ UNCHANGED <<module, builds, tkVars, imageVars, styles, classVars, singletonVars,
                   logVars>>

InitSettings == Init /\ module = "core.style"

NextSettings ==
    \/ \E t \in Definitions, b \in OutlineBackgrounds, f \in OutlineForegrounds,
          s \in OutlineStyles : StyleOutlineButtons(t, b, f, s)
    \/ \E t \in Definitions : StyleSpinbox(t)
    \/ \E t \in Definitions : StyleCombobox(t)

SpecSettings == InitSettings /\ [][NextSettings]_vars

\* ------------------------------------------------ ttk: resolving an option
\* The pseudo-states a widget can be in; a widget state is a set of them.
PseudoStates == {"hover", "pressed", "disabled", "focus"}
WidgetStates == SUBSET PseudoStates

NoValue == [theme |-> None, color |-> None, vd |-> 0]

\* The style a style name falls back to: the name without its first component
ParentStyle(style) ==
    CASE style = "primary.Outline.TButton" -> "Outline.TButton"
      [] style = "Outline.TButton" -> "TButton"
      [] style \in {c \o ".TSpinbox" : c \in ThemeColorNames} -> "TSpinbox"
      [] style \in {c \o ".TCombobox" : c \in ThemeColorNames} -> "TCombobox"
      [] OTHER -> "."

Matches(spec, state) == spec.on \subseteq state /\ spec.off \cap state = {}

\* The value of the first map entry whose state specification matches
StateMapLookup(entries, state) ==
    LET hits == {k \in 1..Len(entries) : Matches(entries[k][1], state)}
    IN  IF hits = {} THEN NoValue
        ELSE entries[CHOOSE k \in hits : \A j \in hits : k <= j][2]

\* The map of the nearest style that maps the option decides by state
RECURSIVE StyleMap(_, _, _, _)
StyleMap(stngs, style, option, state) ==
    IF style = "." THEN NoValue
    ELSE IF style \in DOMAIN stngs /\ option \in DOMAIN stngs[style].map
    THEN StateMapLookup(stngs[style].map[option], state)
    ELSE StyleMap(stngs, ParentStyle(style), option, state)

\* The configured value of the nearest style that configures the option
RECURSIVE StyleDefault(_, _, _)
StyleDefault(stngs, style, option) ==
    IF style = "." THEN NoValue
    ELSE IF style \in DOMAIN stngs /\ option \in DOMAIN stngs[style].configure
    THEN stngs[style].configure[option]
    ELSE StyleDefault(stngs, ParentStyle(style), option)

\* What an option of a widget of the given style resolves to in a state
Resolve(stngs, style, option, state) ==
    LET mapped == StyleMap(stngs, style, option, state)
    IN  IF mapped # NoValue THEN mapped ELSE StyleDefault(stngs, style, option)

\* -------------------------------------------------------------- properties
\* What style.theme_use() would report for the i-th Style object
ThemeInUse(i) ==
    IF module = "core.style"
    THEN CoreThemeUse(styles[i], tkThemes, tkCurrent, tkOptions, theme_images,
                      uuid, None).ret
    ELSE RootThemeUse(tkThemes, tkCurrent, tkOptions, themes, theme_objects,
                      None).ret

\* C1: after theme_use(name) with name a theme of theme_definitions, the theme
\* in use that theme_use() reports is name and Style.theme is the definition
\* registered under name, whatever theme_use calls came before (core/style.py
\* and style.py).
C1_ThemeUseSelectsDefinition ==
    (/\ module \in {"core.style", "style"}
     /\ last.op = "theme_use"
     /\ last.arg \in DOMAIN load_themes)
    => /\ ThemeInUse(last.self) = last.arg
       /\ styles[last.self].theme = load_themes[last.arg]

\* C1 witness: flatly was built first, superhero second, and theme_use("flatly")
\* has just switched back to flatly.
C1_SwitchedBack ==
    /\ module = "core.style"
    /\ last.op = "theme_use"
    /\ last.arg = "flatly"
    /\ Key(2, "sizegrip") \in DOMAIN theme_images
    /\ theme_images[Key(1, "sizegrip")].fill.theme = "flatly"
    /\ theme_images[Key(2, "sizegrip")].fill.theme = "superhero"
    /\ tkCurrent = "flatly"

AssetOps == {"style_separator", "style_scale", "style_sizegrip"}

\* C2: a style builder of StylerTTK called again with the theme and arguments
\* of an earlier call adds no entry to StylerTTK.theme_images.
C2_RepeatedCallAddsNoImages ==
    [][(last'.op \in AssetOps /\ <<last'.op, last'.arg>> \in asset_log)
       => DOMAIN theme_images' = DOMAIN theme_images]_vars

\* C3: theme_use() without a name returns the theme in use and leaves
\* Style.theme as it was.
C3_QueryLeavesTheme ==
    [][(last'.op = "theme_use" /\ last'.arg = None)
       => /\ last'.ret = tkCurrent
          /\ styles'[last'.self].theme = styles[last'.self].theme]_vars

\* C4: theme_use(name) with an unknown name changes neither the theme in use
\* nor Style.theme.
C4_InvalidNameChangesNothing ==
    [][(last'.op = "theme_use" /\ last'.arg \in UnknownThemes)
       => /\ tkCurrent' = tkCurrent
          /\ styles'[last'.self].theme = styles[last'.self].theme]_vars

\* C5: theme_use(name) with the name of a built-in ttk theme makes it the
\* theme in use and raises nothing.
C5_BuiltinThemeIsUsable ==
    (last.op = "theme_use" /\ last.arg \in TtkThemes)
    => (tkCurrent = last.arg /\ last.raised = None)

\* C6: in core/style.py, constructing a Style with a ttkbootstrap theme
\* succeeds and selects the theme, also when an earlier Style built it.
C6_SecondStyleConstructs ==
    (module = "core.style" /\ last.op = "__init__"
     /\ last.arg \in DOMAIN load_themes)
    => (last.raised = None /\ tkCurrent = last.arg)

\* C7: get_instance() returns the singleton and never None, also when it has
\* to create it; get_builder() always gets an instance from it.
C7_GetInstanceReturnsInstance ==
    (last.op \in {"get_instance", "get_builder"})
    => (last.ret # 0 /\ last.ret = instance)

\* C8: while an initialised Style object is alive, Style.__instance refers to
\* it: it is not reset to None nor replaced by another object.
C8_SingletonKept ==
    module = "style.style" => \A o \in Initialised : instance = o

\* C9: exists(s) is True exactly when s was registered with
\* register_ttkstyle(s) while the current theme was in use.
C9_ExistsIffRegistered ==
    \A o \in Initialised :
        styles[o].theme # NoneTheme
        => \A s \in StyleNames :
               exists(styles[o], s) <=> <<o, styles[o].theme.name, s>> \in ttkstyle_log

\* C10: style_is_registered(t, s) is truthy exactly when register_style(t, s)
\* was called; a style registered under one theme is not reported under another.
C10_RegisteredIffCalled ==
    \A t \in BootstrapThemes, s \in StyleNames :
        Truthy(style_is_registered(registered_styles, t, s)) <=> <<t, s>> \in style_log

\* C10 witness: a style is registered under one theme only, while the other
\* theme has a registered style of its own.
C10_RegisteredUnderOneTheme ==
    /\ last.op = "register_style"
    /\ \E t \in BootstrapThemes, u \in BootstrapThemes, s \in StyleNames :
           /\ t # u
           /\ <<t, s>> \in style_log
           /\ <<u, s>> \notin style_log
           /\ u \in DOMAIN registered_styles
           /\ Truthy(style_is_registered(registered_styles, t, s))
           /\ ~Truthy(style_is_registered(registered_styles, u, s))

\* The names given to register_theme on the object o: by _load_themes() when
\* it was constructed and by the application since.
RegisteredThemes(o) == DOMAIN load_themes \cup {n \in UserThemes : <<o, n>> \in theme_log}

\* C11: in style/style.py, theme_names() lists exactly the names given to
\* register_theme, and theme_use(name) with such a name is not rejected as
\* invalid: the theme becomes the theme in use and Style.theme its definition.
C11_RegisteredThemeIsListedAndValid ==
    module = "style.style"
    => \A o \in Initialised :
           /\ theme_names(styles[o]) = RegisteredThemes(o)
           /\ (last.op = "theme_use" /\ last.self = o
                /\ last.arg \in RegisteredThemes(o))
               => /\ tkCurrent = last.arg
                  /\ styles[o].theme = styles[o].theme_definitions[last.arg]

\* C11 witness: the application registered minty and theme_use("minty") has
\* just built and selected it.
C11_UserThemeInUse ==
    /\ module = "style.style"
    /\ <<1, "minty">> \in theme_log
    /\ last.op = "theme_use"
    /\ last.arg = "minty"
    /\ tkCurrent = "minty"
    /\ "minty" \in theme_names(styles[1])

HoverStates == {w \in WidgetStates : "hover" \in w /\ "pressed" \notin w
                                     /\ "disabled" \notin w}

\* C12: for every style made by style_outline_buttons, in every widget state
\* with hover and neither pressed nor disabled, foreground resolves to the
\* configured background and background, bordercolor, darkcolor and lightcolor
\* resolve to the configured foreground.
C12_HoverInvertsColours ==
    \A s \in OutlineStyles \cap DOMAIN settings : \A w \in HoverStates :
        /\ Resolve(settings, s, "foreground", w) = settings[s].configure.background
        /\ \A o \in {"background", "bordercolor", "darkcolor", "lightcolor"} :
               Resolve(settings, s, o, w) = settings[s].configure.foreground

\* C12 witness: an outline style was just made with a foreground and a
\* background of its own, and a hovered, focused widget of that style shows
\* the two swapped.
C12_HoveredOutlineButton ==
    /\ last.op = "style_outline_buttons"
    /\ last.arg = <<"superhero", "light", "secondary", "primary.Outline.TButton">>
    /\ "Outline.TButton" \in DOMAIN settings
    /\ Resolve(settings, "primary.Outline.TButton", "foreground", {"hover", "focus"})
           = Color(load_themes["superhero"], "light")
    /\ Resolve(settings, "primary.Outline.TButton", "background", {"hover", "focus"})
           = Color(load_themes["superhero"], "secondary")
    /\ Resolve(settings, "primary.Outline.TButton", "background", {})
           = Color(load_themes["superhero"], "light")

\* C13: no Style object builds a theme more than once, whatever theme_use
\* calls are made: every (object, theme) pair of the build history was built
\* exactly once and its theme is a theme of the interpreter, so theme_use on
\* it selects without building.
C13_ThemeBuiltAtMostOnce ==
    \A p \in DOMAIN builds : builds[p] = 1 /\ p[2] \in tkThemes

\* C13 witness: one Style built flatly, then superhero, and theme_use("flatly")
\* has just switched back.
C13_BackAndForth ==
    /\ module = "style"
    /\ DOMAIN builds = {<<1, "flatly">>, <<1, "superhero">>}
    /\ last.op = "theme_use"
    /\ last.self = 1
    /\ last.arg = "flatly"
    /\ tkCurrent = "flatly"
    /\ tkOptions = "flatly"

\* The image objects StylerTTK.theme_images holds
HeldImages == {theme_images[k] : k \in DOMAIN theme_images}

\* C14: in core/style.py, every image given to an element of a theme that was
\* created is still held in StylerTTK.theme_images, however many themes were
\* created afterwards.
C14_ElementImagesKept ==
    module = "core.style"
    => \A p \in DOMAIN builds :
           LET elements == CoreScaleElements(load_themes[p[2]])
           IN  \A e \in DOMAIN elements : elements[e] \subseteq HeldImages

SpinboxStyles == {"TSpinbox"} \cup {c \o ".TSpinbox" : c \in ThemeColorNames}

====
